---- MODULE Spec2Model ----
(***************************************************************************)
(* Model of the two demonstration scripts:                                 *)
(*   04_mcp_integration/weather_mcp.py      - get_weather (MCP tool)       *)
(*   05_deployment/package/lambda_function.py - weather_info (agent tool), *)
(*                                 the module-level agent, lambda_handler  *)
(*                                                                         *)
(* A Python str is modelled as the sequence of its characters, each a      *)
(* one-character TLA+ string (the characters outside printable ASCII, and  *)
(* the grave accent, have names).  A comment "spells ..." gives the text   *)
(* of the sequences written on the line that follows it.                   *)
(***************************************************************************)
EXTENDS Integers, Sequences, FiniteSets, TLC

VARIABLES
    demo_data,      \* weather_mcp.py: the dict get_weather looks up
    weather_data,   \* lambda_function.py: the dict weather_info looks up
    last_call,      \* the most recent tool call and its outcome
    first_call,     \* an earlier tool call kept for comparison (history)
    ncalls,         \* number of tool calls made so far
    loaded,         \* lambda_function.py has been imported by the process
    agent,          \* the module-level name `agent`
    constructions,  \* number of Agent(...) constructions in this process
    invocations,    \* number of lambda_handler invocations started
    pc,             \* position of the running lambda_handler invocation
    event,          \* the event of the running invocation
    body,           \* local `body`
    user_message,   \* local `user_message`
    exc,            \* the exception raised inside the try block, if any
    agent_calls,    \* agent calls made by the running invocation
    agent_call,     \* the agent instance called last, and its argument
    agent_result,   \* how that call ended, and response.message
    responses,      \* the values the running invocation has returned
    path,           \* the steps the running invocation has taken (history)
    log             \* lines printed to stdout by the process

toolVars == <<demo_data, weather_data, last_call, first_call, ncalls>>
lambdaVars == <<loaded, agent, constructions, invocations, pc, event, body,
                user_message, exc, agent_calls, agent_call, agent_result,
                responses, path, log>>
vars == <<toolVars, lambdaVars>>

-----------------------------------------------------------------------------
(* Characters *)

\* U+0060 GRAVE ACCENT, which a TLA+ string cannot hold
GRAVE == "U+0060"

\* the printable ASCII characters, U+0020 to U+007E, in code point order
Ascii ==
    \* spells " !\"#$%&'()*+,-./0123456789:;<=>?@ABCDEFGHIJKLMNOPQRSTUVWXYZ[\\]^_`abcdefghijklmnopqrstuvwxyz{|}~"
    <<" ", "!", "\"", "#", "$", "%", "&", "'", "(", ")", "*", "+", ",", "-", ".", "/", "0",
      "1", "2", "3", "4", "5", "6", "7", "8", "9", ":", ";", "<", "=", ">", "?", "@", "A", "B",
      "C", "D", "E", "F", "G", "H", "I", "J", "K", "L", "M", "N", "O", "P", "Q", "R", "S", "T",
      "U", "V", "W", "X", "Y", "Z", "[", "\\", "]", "^", "_", GRAVE, "a", "b", "c", "d", "e",
      "f", "g", "h", "i", "j", "k", "l", "m", "n", "o", "p", "q", "r", "s", "t", "u", "v", "w",
      "x", "y", "z", "{", "|", "}", "~">>

\* spells "0123456789ABCDEF"
HexUpper == <<"0", "1", "2", "3", "4", "5", "6", "7", "8", "9", "A", "B", "C", "D", "E", "F">>
\* spells "0123456789abcdef"
HexLower == <<"0", "1", "2", "3", "4", "5", "6", "7", "8", "9", "a", "b", "c", "d", "e", "f">>

\* the character with code point n (n < 65536): itself when printable ASCII,
\* the name "U+XXXX" otherwise
CodePointChar(n) ==
    IF n \in 32..126 THEN Ascii[n - 31]
    ELSE "U+" \o HexUpper[((n \div 4096) % 16) + 1] \o HexUpper[((n \div 256) % 16) + 1]
              \o HexUpper[((n \div 16) % 16) + 1] \o HexUpper[(n % 16) + 1]

\* code points outside printable ASCII that occur in the model's strings
OtherCodePoints == {8, 9, 10, 12, 13, 176}

BS == CodePointChar(8)
TAB == CodePointChar(9)
LF == CodePointChar(10)
FF == CodePointChar(12)
CR == CodePointChar(13)
DEG == CodePointChar(176)

\* spells "ABCDEFGHIJKLMNOPQRSTUVWXYZ"
UpperCase == <<"A", "B", "C", "D", "E", "F", "G", "H", "I", "J", "K", "L", "M", "N", "O", "P",
               "Q", "R", "S", "T", "U", "V", "W", "X", "Y", "Z">>
\* spells "abcdefghijklmnopqrstuvwxyz"
LowerCase == <<"a", "b", "c", "d", "e", "f", "g", "h", "i", "j", "k", "l", "m", "n", "o", "p",
               "q", "r", "s", "t", "u", "v", "w", "x", "y", "z">>

IndexOf(c, s) == CHOOSE i \in 1..Len(s) : s[i] = c

InSeq(c, s) == \E i \in 1..Len(s) : s[i] = c

\* ord(c)
CharCode(c) ==
    IF InSeq(c, Ascii) THEN IndexOf(c, Ascii) + 31
    ELSE CHOOSE n \in OtherCodePoints : CodePointChar(n) = c

\* str.lower() on one character
LowerChar(c) == IF InSeq(c, UpperCase) THEN LowerCase[IndexOf(c, UpperCase)] ELSE c

\* str.upper() on one character; used only to enumerate case variants
UpperChar(c) == IF InSeq(c, LowerCase) THEN UpperCase[IndexOf(c, LowerCase)] ELSE c

\* str.lower()
LowerNone(s) == s
Lower(s) == [i \in 1..Len(s) |-> LowerChar(s[i])]

\* `needle in hay` for two strs
Contains(hay, needle) ==
    \E i \in 0..(Len(hay) - Len(needle)) :
        \A j \in 1..Len(needle) : hay[i + j] = needle[j]

-----------------------------------------------------------------------------
(* Python values of the tool calls *)

\* the outcome of a call that returns v
Returned(v) == [raised |-> FALSE, value |-> v]

\* dict.get(key, default): a read; never raises for a str key
DictGetDefaultOnly(d, key, default) == Returned(default)
DictGet(d, key, default) ==
    IF key \in DOMAIN d THEN Returned(d[key]) ELSE Returned(default)

-----------------------------------------------------------------------------
(* 04_mcp_integration/weather_mcp.py *)

demo_data_literal ==
    (<<"B", "e", "i", "j", "i", "n", "g">> :>
        \* spells "Sunny, 25\u00b0C"
        <<"S", "u", "n", "n", "y", ",", " ", "2", "5", DEG, "C">>) @@
    (<<"S", "h", "a", "n", "g", "h", "a", "i">> :>
        \* spells "Cloudy, 23\u00b0C"
        <<"C", "l", "o", "u", "d", "y", ",", " ", "2", "3", DEG, "C">>) @@
    \* spells "New York"
    (<<"N", "e", "w", " ", "Y", "o", "r", "k">> :>
        \* spells "Rainy, 18\u00b0C"
        <<"R", "a", "i", "n", "y", ",", " ", "1", "8", DEG, "C">>)

\* f"Weather data not available for {city}"
get_weather_fallback_fixed(city) ==
    \* spells "Weather data not available"
    <<"W", "e", "a", "t", "h", "e", "r", " ", "d", "a", "t", "a", " ", "n", "o", "t", " ", "a",
      "v", "a", "i", "l", "a", "b", "l", "e">>
get_weather_fallback(city) ==
    \* spells "Weather data not available for "
    <<"W", "e", "a", "t", "h", "e", "r", " ", "d", "a", "t", "a", " ", "n", "o", "t", " ", "a",
      "v", "a", "i", "l", "a", "b", "l", "e", " ", "f", "o", "r", " ">> \o city

\* get_weather(city): `table` is the local dict as the call leaves it, `out`
\* what the call returns or raises.
get_weather_setdefault(city) ==
    LET table == demo_data_literal
        out == DictGet(table, city, get_weather_fallback(city))
    IN  [table |-> IF city \in DOMAIN table THEN table
                   ELSE table @@ (city :> out.value),
         out |-> out]
get_weather(city) ==
    LET table == demo_data_literal
    IN  [table |-> table,
         out |-> DictGet(table, city, get_weather_fallback(city))]

-----------------------------------------------------------------------------
(* 05_deployment/package/lambda_function.py: the tool *)

weather_data_literal ==
    \* spells "new york"
    (<<"n", "e", "w", " ", "y", "o", "r", "k">> :>
        \* spells "72\u00b0F, Partly Cloudy"
        <<"7", "2", DEG, "F", ",", " ", "P", "a", "r", "t", "l", "y", " ", "C", "l", "o", "u",
          "d", "y">>) @@
    (<<"l", "o", "n", "d", "o", "n">> :>
        \* spells "64\u00b0F, Rainy"
        <<"6", "4", DEG, "F", ",", " ", "R", "a", "i", "n", "y">>) @@
    (<<"t", "o", "k", "y", "o">> :>
        \* spells "79\u00b0F, Sunny"
        <<"7", "9", DEG, "F", ",", " ", "S", "u", "n", "n", "y">>)

weather_info_fallback ==
    \* spells "Weather information not available"
    <<"W", "e", "a", "t", "h", "e", "r", " ", "i", "n", "f", "o", "r", "m", "a", "t", "i", "o",
      "n", " ", "n", "o", "t", " ", "a", "v", "a", "i", "l", "a", "b", "l", "e">>

\* weather_info(location), as get_weather above
weather_info(location) ==
    LET table == weather_data_literal
    IN  [table |-> table,
         out |-> DictGet(table, Lower(location), weather_info_fallback)]

-----------------------------------------------------------------------------
(* Arguments the tools are called with *)

\* every spelling of s that differs from s only in the case of its letters
CaseVariants(s) ==
    {t \in [1..Len(s) -> {s[i] : i \in 1..Len(s)} \cup {UpperChar(s[i]) : i \in 1..Len(s)}
                                \cup {LowerChar(s[i]) : i \in 1..Len(s)}] :
        \A i \in 1..Len(s) : t[i] \in {LowerChar(s[i]), UpperChar(s[i])}}

Cities ==
    DOMAIN demo_data_literal \cup
    {<<"b", "e", "i", "j", "i", "n", "g">>,
     <<"B", "E", "I", "J", "I", "N", "G">>,
     \* spells "new york"
     <<"n", "e", "w", " ", "y", "o", "r", "k">>,
     \* spells "Beijing "
     <<"B", "e", "i", "j", "i", "n", "g", " ">>,
     <<"P", "a", "r", "i", "s">>,
     <<"l", "o", "n", "d", "o", "n">>,
     <<>>}

Locations ==
    DOMAIN weather_data_literal \cup CaseVariants(<<"t", "o", "k", "y", "o">>) \cup
    {<<"L", "o", "n", "d", "o", "n">>,
     <<"L", "O", "N", "D", "O", "N">>,
     \* spells "New York"
     <<"N", "e", "w", " ", "Y", "o", "r", "k">>,
     \* spells "london "
     <<"l", "o", "n", "d", "o", "n", " ">>,
     <<"P", "a", "r", "i", "s">>,
     <<>>}

MaxCalls == 3

NoCall == [tool |-> "none", n |-> 0, arg |-> <<>>, raised |-> FALSE, value |-> <<>>]

Call(tool, n, arg, out) ==
    [tool |-> tool, n |-> n, arg |-> arg, raised |-> out.raised, value |-> out.value]

InitTools ==
    /\ demo_data = demo_data_literal
    /\ weather_data = weather_data_literal
    /\ last_call = NoCall
    /\ first_call = NoCall
    /\ ncalls = 0

\* One call of the MCP tool get_weather.  `keep` records the call in
\* first_call, for comparison with the calls that follow.
GetWeather(city, keep) ==
    /\ ncalls < MaxCalls
    /\ LET r == get_weather(city)
           c == Call("get_weather", ncalls + 1, city, r.out)
       IN  /\ demo_data' = r.table
           /\ last_call' = c
           /\ first_call' = IF keep THEN c ELSE first_call
    /\ ncalls' = ncalls + 1
    /\ UNCHANGED <<weather_data, lambdaVars>>

\* One call of the agent tool weather_info.
WeatherInfo(location, keep) ==
    /\ ncalls < MaxCalls
    /\ LET r == weather_info(location)
           c == Call("weather_info", ncalls + 1, location, r.out)
       IN  /\ weather_data' = r.table
           /\ last_call' = c
           /\ first_call' = IF keep THEN c ELSE first_call
    /\ ncalls' = ncalls + 1
    /\ UNCHANGED <<demo_data, lambdaVars>>

NextTools ==
    \/ \E city \in Cities, keep \in BOOLEAN : GetWeather(city, keep)
    \/ \E location \in Locations, keep \in BOOLEAN : WeatherInfo(location, keep)

-----------------------------------------------------------------------------
(* Python values handled by lambda_handler: [t |-> type, v |-> content]     *)
(*   "str"   v: the characters         "num"  v: the JSON number as written *)
(*   "bool"  v: TRUE/FALSE             "none" v: <<>>                       *)
(*   "list"  v: the items              "dict" v: function from key to value *)

Str(chars) == [t |-> "str", v |-> chars]
Num(lexeme) == [t |-> "num", v |-> lexeme]
Bool(b) == [t |-> "bool", v |-> b]
None == [t |-> "none", v |-> <<>>]
List(items) == [t |-> "list", v |-> items]
Dict(f) == [t |-> "dict", v |-> f]
EmptyDict == Dict(<<>>)

\* spells "0123456789"
Digits == <<"0", "1", "2", "3", "4", "5", "6", "7", "8", "9">>

\* a JSON number, as written, is zero: no digit of its integer and fraction
\* parts is other than 0 (exponents that overflow or underflow a float are
\* not among the inputs)
RECURSIVE MantissaIsZero(_, _)
MantissaIsZero(lexeme, i) ==
    IF i > Len(lexeme) \/ lexeme[i] \in {"e", "E"} THEN TRUE
    ELSE IF InSeq(lexeme[i], Digits) /\ lexeme[i] # "0" THEN FALSE
    ELSE MantissaIsZero(lexeme, i + 1)

NumIsZero(lexeme) ==
    \* spells "NaN", "Infinity", "-Infinity"
    /\ lexeme \notin {<<"N", "a", "N">>, <<"I", "n", "f", "i", "n", "i", "t", "y">>, <<"-", "I", "n", "f", "i", "n", "i", "t", "y">>}
    /\ MantissaIsZero(lexeme, 1)

\* bool(x): the truth value `if not user_message` tests
TruthyUnlessNone(x) == x.t # "none"
Truthy(x) ==
    CASE x.t = "str" -> Len(x.v) > 0
      [] x.t = "num" -> ~NumIsZero(x.v)
      [] x.t = "bool" -> x.v
      [] x.t = "none" -> FALSE
      [] x.t = "list" -> Len(x.v) > 0
      [] x.t = "dict" -> DOMAIN x.v # {}

\* type(x).__name__
TypeName(x) ==
    CASE x.t = "str" -> <<"s", "t", "r">>
      [] x.t = "num" -> IF \E i \in 1..Len(x.v) : x.v[i] \in {".", "e", "E", "N", "I"}
                        THEN <<"f", "l", "o", "a", "t">> ELSE <<"i", "n", "t">>
      [] x.t = "bool" -> <<"b", "o", "o", "l">>
      [] x.t = "none" -> <<"N", "o", "n", "e", "T", "y", "p", "e">>
      [] x.t = "list" -> <<"l", "i", "s", "t">>
      [] x.t = "dict" -> <<"d", "i", "c", "t">>

\* an exception: its class and str(e)
Exc(type, text) == [type |-> type, text |-> text]
NoExc == Exc("none", <<>>)

\* the outcome of an expression: a value, or an exception raised
Ok(x) == [raised |-> FALSE, value |-> x, exc |-> NoExc]
Raise(e) == [raised |-> TRUE, value |-> None, exc |-> e]

-----------------------------------------------------------------------------
(* json.loads, as lambda_handler calls it on line 37 *)

JsonWhitespace == {" ", TAB, LF, CR}

RECURSIVE SkipWs(_, _)
SkipWs(s, i) ==
    IF i <= Len(s) /\ s[i] \in JsonWhitespace THEN SkipWs(s, i + 1) ELSE i

\* s has the characters of word at position i
StartsWith(s, i, word) ==
    /\ i + Len(word) - 1 <= Len(s)
    /\ \A j \in 1..Len(word) : s[i + j - 1] = word[j]

\* a parse step: ok and the value with the position after it, or not ok
Parsed(x, pos) == [ok |-> TRUE, val |-> x, pos |-> pos]
ParseFail == [ok |-> FALSE, val |-> None, pos |-> 0]

IsHex(c) == InSeq(LowerChar(c), HexLower)
HexVal(c) == IndexOf(LowerChar(c), HexLower) - 1

\* the character a backslash escape stands for (the escape starts at s[i],
\* the character after the backslash); surrogate pairs are not among the inputs
ParseEscape(s, i) ==
    IF i > Len(s) THEN ParseFail
    ELSE CASE s[i] = "\"" -> Parsed("\"", i + 1)
           [] s[i] = "\\" -> Parsed("\\", i + 1)
           [] s[i] = "/" -> Parsed("/", i + 1)
           [] s[i] = "b" -> Parsed(BS, i + 1)
           [] s[i] = "f" -> Parsed(FF, i + 1)
           [] s[i] = "n" -> Parsed(LF, i + 1)
           [] s[i] = "r" -> Parsed(CR, i + 1)
           [] s[i] = "t" -> Parsed(TAB, i + 1)
           [] s[i] = "u" ->
                IF i + 4 <= Len(s) /\ \A j \in 1..4 : IsHex(s[i + j])
                THEN Parsed(CodePointChar(4096 * HexVal(s[i + 1]) + 256 * HexVal(s[i + 2])
                                          + 16 * HexVal(s[i + 3]) + HexVal(s[i + 4])), i + 5)
                ELSE ParseFail
           [] OTHER -> ParseFail

\* the rest of a string whose opening quote has been read; acc is what has
\* been read of it.  Control characters are rejected (strict mode).
RECURSIVE ParseStringTail(_, _, _)

\* ... after the escape e
AfterEscape(s, e, acc) ==
    IF e.ok THEN ParseStringTail(s, e.pos, Append(acc, e.val)) ELSE ParseFail

ParseStringTail(s, i, acc) ==
    IF i > Len(s) THEN ParseFail
    ELSE IF s[i] = "\"" THEN Parsed(Str(acc), i + 1)
    ELSE IF s[i] = "\\" THEN AfterEscape(s, ParseEscape(s, i + 1), acc)
    ELSE IF CharCode(s[i]) < 32 THEN ParseFail
    ELSE ParseStringTail(s, i + 1, Append(acc, s[i]))

RECURSIVE SkipDigits(_, _)
SkipDigits(s, i) ==
    IF i <= Len(s) /\ InSeq(s[i], Digits) THEN SkipDigits(s, i + 1) ELSE i

\* NUMBER_RE: (-?(?:0|[1-9][0-9]*))(\.[0-9]+)?([eE][-+]?[0-9]+)? matched at
\* s[i]; each operator below gives the position after one part of it, the
\* position it is given when the part is not there

\* -?
AfterSign(s, i) == IF i <= Len(s) /\ s[i] = "-" THEN i + 1 ELSE i

\* 0|[1-9][0-9]*
AfterInteger(s, i) == IF i <= Len(s) /\ s[i] = "0" THEN i + 1 ELSE SkipDigits(s, i)

\* [0-9]+, which ends at j, after the character at i
AfterDigits(i, j) == IF j > i + 1 THEN j ELSE i

\* (\.[0-9]+)?
AfterFraction(s, i) ==
    IF i <= Len(s) /\ s[i] = "." THEN AfterDigits(i, SkipDigits(s, i + 1)) ELSE i

\* [-+]?[0-9]+ after the e at i
AfterExponentDigits(s, i, j) ==
    IF j <= Len(s) /\ InSeq(s[j], Digits) THEN SkipDigits(s, j) ELSE i

\* ([eE][-+]?[0-9]+)?
AfterExponent(s, i) ==
    IF i <= Len(s) /\ s[i] \in {"e", "E"}
    THEN AfterExponentDigits(s, i, IF i + 1 <= Len(s) /\ s[i + 1] \in {"-", "+"}
                                   THEN i + 2 ELSE i + 1)
    ELSE i

\* the number from s[i] to before s[j]
NumberTo(s, i, j) == Parsed(Num(SubSeq(s, i, j - 1)), j)

\* the number whose integer part ends before s[j], if it has one
NumberFrom(s, i, digits, j) ==
    IF j = digits THEN ParseFail
    ELSE NumberTo(s, i, AfterExponent(s, AfterFraction(s, j)))

ParseNumber(s, i) == NumberFrom(s, i, AfterSign(s, i), AfterInteger(s, AfterSign(s, i)))

\* a number, or one of the constants Python accepts
NumberOrConstant(s, i, number) ==
    IF number.ok THEN number
    ELSE IF StartsWith(s, i, <<"N", "a", "N">>) THEN Parsed(Num(<<"N", "a", "N">>), i + 3)
    ELSE IF StartsWith(s, i, <<"I", "n", "f", "i", "n", "i", "t", "y">>) THEN Parsed(Num(<<"I", "n", "f", "i", "n", "i", "t", "y">>), i + 8)
    \* spells "-Infinity", "-Infinity"
    ELSE IF StartsWith(s, i, <<"-", "I", "n", "f", "i", "n", "i", "t", "y">>) THEN Parsed(Num(<<"-", "I", "n", "f", "i", "n", "i",
                                                            "t", "y">>), i + 9)
    ELSE ParseFail

RECURSIVE ParseValue(_, _)
RECURSIVE ParseMembers(_, _, _)
RECURSIVE ParseItems(_, _, _)

\* an object: after a member, with d the dict so far and n the position of
\* the "}" or "," expected
AfterMember(s, d, n) ==
    IF n > Len(s) THEN ParseFail
    ELSE IF s[n] = "}" THEN Parsed(Dict(d), n + 1)
    ELSE IF s[n] = "," THEN ParseMembers(s, SkipWs(s, n + 1), d)
    ELSE ParseFail

\* an object: after the value x of the key k (a repeated key keeps its last
\* value)
AfterMemberValue(s, k, x, acc) ==
    IF ~x.ok THEN ParseFail
    ELSE AfterMember(s, (k.val.v :> x.val) @@ acc, SkipWs(s, x.pos))

\* an object: after the key k, with c the position of the ":" expected
AfterKey(s, k, c, acc) ==
    IF c > Len(s) \/ s[c] # ":" THEN ParseFail
    ELSE AfterMemberValue(s, k, ParseValue(s, SkipWs(s, c + 1)), acc)

\* an object: the key k has been read
MemberKey(s, k, acc) ==
    IF ~k.ok THEN ParseFail ELSE AfterKey(s, k, SkipWs(s, k.pos), acc)

\* the members of an object after its "{" or after a ","; s[i] is where the
\* next key's opening quote must be; acc is the dict so far
ParseMembers(s, i, acc) ==
    IF i > Len(s) \/ s[i] # "\"" THEN ParseFail
    ELSE MemberKey(s, ParseStringTail(s, i + 1, <<>>), acc)

\* an array: after an item, with items the list so far and n the position
\* of the "]" or "," expected
AfterItem(s, items, n) ==
    IF n > Len(s) THEN ParseFail
    ELSE IF s[n] = "]" THEN Parsed(List(items), n + 1)
    ELSE IF s[n] = "," THEN ParseItems(s, SkipWs(s, n + 1), items)
    ELSE ParseFail

\* an array: the item x has been read
Item(s, x, acc) ==
    IF ~x.ok THEN ParseFail ELSE AfterItem(s, Append(acc, x.val), SkipWs(s, x.pos))

\* the items of an array after its "[" or after a ","
ParseItems(s, i, acc) == Item(s, ParseValue(s, i), acc)

\* after "{", with n the position of the first key or of "}"
ObjectFrom(s, n) ==
    IF n <= Len(s) /\ s[n] = "}" THEN Parsed(EmptyDict, n + 1) ELSE ParseMembers(s, n, <<>>)

\* after "[", with n the position of the first item or of "]"
ArrayFrom(s, n) ==
    IF n <= Len(s) /\ s[n] = "]" THEN Parsed(List(<<>>), n + 1) ELSE ParseItems(s, n, <<>>)

\* scan_once: the JSON value that starts at s[i]
ParseValue(s, i) ==
    IF i > Len(s) THEN ParseFail
    ELSE IF s[i] = "\"" THEN ParseStringTail(s, i + 1, <<>>)
    ELSE IF s[i] = "{" THEN ObjectFrom(s, SkipWs(s, i + 1))
    ELSE IF s[i] = "[" THEN ArrayFrom(s, SkipWs(s, i + 1))
    ELSE IF StartsWith(s, i, <<"n", "u", "l", "l">>) THEN Parsed(None, i + 4)
    ELSE IF StartsWith(s, i, <<"t", "r", "u", "e">>) THEN Parsed(Bool(TRUE), i + 4)
    ELSE IF StartsWith(s, i, <<"f", "a", "l", "s", "e">>) THEN Parsed(Bool(FALSE), i + 5)
    ELSE NumberOrConstant(s, i, ParseNumber(s, i))

\* the value r parsed from s, when nothing but whitespace follows it
WholeText(s, r) ==
    IF r.ok /\ SkipWs(s, r.pos) > Len(s) THEN Ok(r.val)
    \* spells "JSONDecodeError"
    ELSE Raise(Exc("JSONDecodeError", <<"J", "S", "O", "N", "D", "e", "c", "o", "d", "e", "E",
                                        "r", "r", "o", "r">>))

\* json.loads(x): TypeError unless x is a str; JSONDecodeError unless x is one
\* JSON value with only whitespace around it.  str(e) of a JSONDecodeError
\* names the position; the model keeps its class only.
json_loads(x) ==
    IF x.t # "str"
    THEN Raise(Exc("TypeError",
                   \* spells "the JSON object must be str, bytes or bytearray, not "
                   <<"t", "h", "e", " ", "J", "S", "O", "N", " ", "o", "b", "j", "e", "c", "t",
                     " ", "m", "u", "s", "t", " ", "b", "e", " ", "s", "t", "r", ",", " ", "b",
                     "y", "t", "e", "s", " ", "o", "r", " ", "b", "y", "t", "e", "a", "r", "r",
                     "a", "y", ",", " ", "n", "o", "t", " ">> \o TypeName(x)))
    ELSE WholeText(x.v, ParseValue(x.v, SkipWs(x.v, 1)))

-----------------------------------------------------------------------------
(* json.dumps, as lambda_handler calls it on lines 43, 51 and 60 *)

\* one character, of code point n, of a str inside a JSON string (ensure_ascii)
EscapeCode(c, n) ==
        \* spells "\\\""
        CASE c = "\"" -> <<"\\", "\"">>
          \* spells "\\\\"
          [] c = "\\" -> <<"\\", "\\">>
          \* spells "\\b"
          [] n = 8 -> <<"\\", "b">>
          \* spells "\\t"
          [] n = 9 -> <<"\\", "t">>
          \* spells "\\n"
          [] n = 10 -> <<"\\", "n">>
          \* spells "\\f"
          [] n = 12 -> <<"\\", "f">>
          \* spells "\\r"
          [] n = 13 -> <<"\\", "r">>
          [] n \in 32..126 /\ c \notin {"\"", "\\"} -> <<c>>
          [] OTHER -> <<"\\", "u", HexLower[((n \div 4096) % 16) + 1],
                       HexLower[((n \div 256) % 16) + 1],
                       HexLower[((n \div 16) % 16) + 1], HexLower[(n % 16) + 1]>>

RECURSIVE EscapeFrom(_, _)
EscapeFrom(chars, i) ==
    IF i > Len(chars) THEN <<>>
    ELSE EscapeCode(chars[i], CharCode(chars[i])) \o EscapeFrom(chars, i + 1)

\* the JSON string for a str
\* spells "\"", "\""
JsonString(chars) == <<"\"">> \o EscapeFrom(chars, 1) \o <<"\"">>

\* json.dumps({key: value}) for a str key and a str value
json_dumps(key, value) ==
    \* spells "{", ": ", "}"
    <<"{">> \o JsonString(key) \o <<":", " ">> \o JsonString(value) \o <<"}">>

-----------------------------------------------------------------------------
(* lambda_function.py: the process *)

\* x.get(key, default): AttributeError unless x is a dict
GetMethod(x, key, default) ==
    IF x.t = "dict"
    THEN Ok(IF key \in DOMAIN x.v THEN x.v[key] ELSE default)
    ELSE Raise(Exc("AttributeError",
                   \* spells "'", "' object has no attribute 'get'"
                   <<"'">> \o TypeName(x) \o <<"'", " ", "o", "b", "j", "e", "c", "t", " ", "h",
                                           "a", "s", " ", "n", "o", " ", "a", "t", "t", "r",
                                           "i", "b", "u", "t", "e", " ", "'", "g", "e", "t", "'">>))

\* json.loads(got), unless evaluating got raised
Then(got) == IF got.raised THEN got ELSE json_loads(got.value)

\* the classes `except Exception` catches, among those raised in the model
CatchesValueErrorOnly(e) == e.type \in {"ValueError", "JSONDecodeError"}
Catches(e) == e.type \in {"Exception", "ValueError", "JSONDecodeError", "TypeError", "AttributeError"}

Response(statusCode, text) == [statusCode |-> statusCode, body |-> text]

\* the three values lambda_handler returns
\* spells "error", "No message provided"
response_400 == Response(400, json_dumps(<<"e", "r", "r", "o", "r">>, <<"N", "o", " ", "m", "e", "s", "s", "a",
                                                    "g", "e", " ", "p", "r", "o", "v", "i",
                                                    "d", "e", "d">>))
response_200_echo(request, reply) == Response(200, json_dumps(<<"m", "e", "s", "s", "a", "g", "e">>, request))
response_200(request, reply) == Response(200, json_dumps(<<"m", "e", "s", "s", "a", "g", "e">>, reply))
response_500_leaking(e) == Response(500, json_dumps(<<"e", "r", "r", "o", "r">>, e.text))
\* spells "error", "Internal server error"
response_500(e) == Response(500, json_dumps(<<"e", "r", "r", "o", "r">>, <<"I", "n", "t", "e", "r", "n", "a", "l",
                                                       " ", "s", "e", "r", "v", "e", "r", " ",
                                                       "e", "r", "r", "o", "r">>))

\* print(f"Error: {str(e)}")
\* spells "Error: "
log_line(e) == <<"E", "r", "r", "o", "r", ":", " ">> \o e.text

NoAgentCall == [instance |-> 0, arg |-> None]
NoAgentResult == [kind |-> "none", message |-> <<>>]

InitLambda ==
    /\ loaded = FALSE
    /\ agent = 0
    /\ constructions = 0
    /\ invocations = 0
    /\ pc = "idle"
    /\ event = EmptyDict
    /\ body = None
    /\ user_message = None
    /\ exc = NoExc
    /\ agent_calls = 0
    /\ agent_call = NoAgentCall
    /\ agent_result = NoAgentResult
    /\ responses = <<>>
    /\ path = <<>>
    /\ log = <<>>

Init == InitTools /\ InitLambda

(* Inputs *)

\* body texts that are a JSON object
ObjectBodies ==
    \* spells "{}"
    {<<"{", "}">>,
     \* spells "{\"message\": \"\"}"
     <<"{", "\"", "m", "e", "s", "s", "a", "g", "e", "\"", ":", " ", "\"", "\"", "}">>,
     \* spells "{\"message\": \"hello\"}"
     <<"{", "\"", "m", "e", "s", "s", "a", "g", "e", "\"", ":", " ", "\"", "h", "e", "l", "l",
       "o", "\"", "}">>,
     \* spells "{\"other\": \"x\"}"
     <<"{", "\"", "o", "t", "h", "e", "r", "\"", ":", " ", "\"", "x", "\"", "}">>,
     \* spells "{\"message\": null}"
     <<"{", "\"", "m", "e", "s", "s", "a", "g", "e", "\"", ":", " ", "n", "u", "l", "l", "}">>,
     \* spells "{\"message\": []}"
     <<"{", "\"", "m", "e", "s", "s", "a", "g", "e", "\"", ":", " ", "[", "]", "}">>,
     \* spells "{\"message\": 0}"
     <<"{", "\"", "m", "e", "s", "s", "a", "g", "e", "\"", ":", " ", "0", "}">>,
     \* spells "{\"message\": false}"
     <<"{", "\"", "m", "e", "s", "s", "a", "g", "e", "\"", ":", " ", "f", "a", "l", "s", "e",
       "}">>,
     \* spells "{\"message\": 5}"
     <<"{", "\"", "m", "e", "s", "s", "a", "g", "e", "\"", ":", " ", "5", "}">>,
     \* spells " { \"message\" : \"hi\" } "
     <<" ", "{", " ", "\"", "m", "e", "s", "s", "a", "g", "e", "\"", " ", ":", " ", "\"", "h",
       "i", "\"", " ", "}", " ">>,
     \* spells "{\"message\": \"\", \"message\": \"hello\"}"
     <<"{", "\"", "m", "e", "s", "s", "a", "g", "e", "\"", ":", " ", "\"", "\"", ",", " ",
       "\"", "m", "e", "s", "s", "a", "g", "e", "\"", ":", " ", "\"", "h", "e", "l", "l", "o",
       "\"", "}">>,
     \* spells "{\"message\": \"hello\", \"message\": \"\"}"
     <<"{", "\"", "m", "e", "s", "s", "a", "g", "e", "\"", ":", " ", "\"", "h", "e", "l", "l",
       "o", "\"", ",", " ", "\"", "m", "e", "s", "s", "a", "g", "e", "\"", ":", " ", "\"",
       "\"", "}">>,
     \* spells "{\"message\": \"a\\\"b\"}"
     <<"{", "\"", "m", "e", "s", "s", "a", "g", "e", "\"", ":", " ", "\"", "a", "\\", "\"",
       "b", "\"", "}">>,
     \* spells "{\"message\": \"25\\u00b0C\"}"
     <<"{", "\"", "m", "e", "s", "s", "a", "g", "e", "\"", ":", " ", "\"", "2", "5", "\\", "u",
       "0", "0", "b", "0", "C", "\"", "}">>,
     \* spells "{\"Message\": \"hello\"}"
     <<"{", "\"", "M", "e", "s", "s", "a", "g", "e", "\"", ":", " ", "\"", "h", "e", "l", "l",
       "o", "\"", "}">>,
     \* spells "{\"message\": \" \"}"
     <<"{", "\"", "m", "e", "s", "s", "a", "g", "e", "\"", ":", " ", "\"", " ", "\"", "}">>,
     \* spells "{\"message\": {}}"
     <<"{", "\"", "m", "e", "s", "s", "a", "g", "e", "\"", ":", " ", "{", "}", "}">>}

\* body texts that are JSON, but not an object
NonObjectBodies ==
    {<<"n", "u", "l", "l">>,
     \* spells "42"
     <<"4", "2">>,
     \* spells "[1]"
     <<"[", "1", "]">>,
     \* spells "\"hello\""
     <<"\"", "h", "e", "l", "l", "o", "\"">>,
     <<"t", "r", "u", "e">>,
     \* spells "-0.5e1"
     <<"-", "0", ".", "5", "e", "1">>,
     \* spells "[\"message\"]"
     <<"[", "\"", "m", "e", "s", "s", "a", "g", "e", "\"", "]">>,
     \* spells "[]"
     <<"[", "]">>,
     \* spells "0"
     <<"0">>}

\* body texts that are not JSON
InvalidBodies ==
    {<<>>,
     \* spells "not json"
     <<"n", "o", "t", " ", "j", "s", "o", "n">>,
     \* spells "{\"message\": \"hello\""
     <<"{", "\"", "m", "e", "s", "s", "a", "g", "e", "\"", ":", " ", "\"", "h", "e", "l", "l",
       "o", "\"">>,
     \* spells "{'message': 'hello'}"
     <<"{", "'", "m", "e", "s", "s", "a", "g", "e", "'", ":", " ", "'", "h", "e", "l", "l",
       "o", "'", "}">>,
     \* spells "{\"message\": \"hello\"} x"
     <<"{", "\"", "m", "e", "s", "s", "a", "g", "e", "\"", ":", " ", "\"", "h", "e", "l", "l",
       "o", "\"", "}", " ", "x">>,
     \* spells "{\"message\": \"hello\",}"
     <<"{", "\"", "m", "e", "s", "s", "a", "g", "e", "\"", ":", " ", "\"", "h", "e", "l", "l",
       "o", "\"", ",", "}">>,
     \* spells "01"
     <<"0", "1">>,
     \* spells "{\"message\": hello}"
     <<"{", "\"", "m", "e", "s", "s", "a", "g", "e", "\"", ":", " ", "h", "e", "l", "l", "o",
       "}">>,
     \* spells "{\"message\"}"
     <<"{", "\"", "m", "e", "s", "s", "a", "g", "e", "\"", "}">>,
     \* spells "[1,]"
     <<"[", "1", ",", "]">>}

BodyTexts == ObjectBodies \cup NonObjectBodies \cup InvalidBodies

EventWithoutBody == EmptyDict
EventWithBody(x) == Dict(<<"b", "o", "d", "y">> :> x)

Events ==
    {EventWithoutBody, EventWithBody(None)} \cup {EventWithBody(Str(text)) : text \in BodyTexts}

\* what the agent may answer, and str(e) of what it may raise
Replies ==
    \* spells "hi there"
    {<<"h", "i", " ", "t", "h", "e", "r", "e">>,
     \* spells "64\u00b0F, \"Rainy\""
     <<"6", "4", DEG, "F", ",", " ", "\"", "R", "a", "i", "n", "y", "\"">>,
     <<>>,
     <<"C", ":", "\\", "n", LF>>}

ExcTexts ==
    \* spells "ThrottlingException: rate exceeded"
    {<<"T", "h", "r", "o", "t", "t", "l", "i", "n", "g", "E", "x", "c", "e", "p", "t", "i",
       "o", "n", ":", " ", "r", "a", "t", "e", " ", "e", "x", "c", "e", "e", "d", "e", "d">>,
     \* spells "AccessDenied for key AKIA123"
     <<"A", "c", "c", "e", "s", "s", "D", "e", "n", "i", "e", "d", " ", "f", "o", "r", " ",
       "k", "e", "y", " ", "A", "K", "I", "A", "1", "2", "3">>}

MaxInvocations == 2

(* Steps *)

\* import of lambda_function.py by the process: lines 24-29 construct the agent
LoadModule ==
    /\ ~loaded
    /\ loaded' = TRUE
    /\ constructions' = constructions + 1
    /\ agent' = constructions + 1
    /\ UNCHANGED <<toolVars, invocations, pc, event, body, user_message, exc, agent_calls,
                   agent_call, agent_result, responses, path, log>>

\* the host calls lambda_handler(event, context)
InvokeConstructing(e) ==
    /\ loaded
    /\ pc \in {"idle", "done"}
    /\ invocations < MaxInvocations
    /\ invocations' = invocations + 1
    /\ constructions' = constructions + 1
    /\ agent' = constructions + 1
    /\ event' = e
    /\ body' = None
    /\ user_message' = None
    /\ exc' = NoExc
    /\ agent_calls' = 0
    /\ agent_call' = NoAgentCall
    /\ agent_result' = NoAgentResult
    /\ responses' = <<>>
    /\ path' = <<"try">>
    /\ pc' = "parse"
    /\ UNCHANGED <<toolVars, loaded, log>>
Invoke(e) ==
    /\ loaded
    /\ pc \in {"idle", "done"}
    /\ invocations < MaxInvocations
    /\ invocations' = invocations + 1
    /\ event' = e
    /\ body' = None
    /\ user_message' = None
    /\ exc' = NoExc
    /\ agent_calls' = 0
    /\ agent_call' = NoAgentCall
    /\ agent_result' = NoAgentResult
    /\ responses' = <<>>
    /\ path' = <<"try">>
    /\ pc' = "parse"
    /\ UNCHANGED <<toolVars, loaded, agent, constructions, log>>

\* line 37: body = json.loads(event.get('body', '{}'))
ParseBody ==
    /\ pc = "parse"
    \* spells "body", "{}"
    /\ LET r == Then(GetMethod(event, <<"b", "o", "d", "y">>, Str(<<"{", "}">>)))
       IN  /\ body' = r.value
           /\ exc' = r.exc
           /\ pc' = IF r.raised THEN "except" ELSE "extract"
    /\ path' = Append(path, "parse")
    /\ UNCHANGED <<toolVars, loaded, agent, constructions, invocations, event, user_message,
                   agent_calls, agent_call, agent_result, responses, log>>

\* line 38: user_message = body.get('message', '')
ExtractMessage ==
    /\ pc = "extract"
    /\ LET r == GetMethod(body, <<"m", "e", "s", "s", "a", "g", "e">>, Str(<<>>))
       IN  /\ user_message' = r.value
           /\ exc' = r.exc
           /\ pc' = IF r.raised THEN "except" ELSE "check"
    /\ path' = Append(path, "extract")
    /\ UNCHANGED <<toolVars, loaded, agent, constructions, invocations, event, body,
                   agent_calls, agent_call, agent_result, responses, log>>

\* lines 40-44: if not user_message: return the 400 response
CheckMessage ==
    /\ pc = "check"
    /\ IF ~Truthy(user_message)
       THEN /\ responses' = Append(responses, response_400)
            /\ pc' = "done"
       ELSE /\ responses' = responses
            /\ pc' = "call"
    /\ path' = Append(path, "check")
    /\ UNCHANGED <<toolVars, loaded, agent, constructions, invocations, event, body,
                   user_message, exc, agent_calls, agent_call, agent_result, log>>

\* line 47: response = agent(user_message), the agent answering
AgentReturns(reply) ==
    /\ pc = "call"
    /\ agent_calls' = agent_calls + 1
    /\ agent_call' = [instance |-> agent, arg |-> user_message]
    /\ agent_result' = [kind |-> "returned", message |-> reply]
    /\ pc' = "respond"
    /\ path' = Append(path, "call")
    /\ UNCHANGED <<toolVars, loaded, agent, constructions, invocations, event, body,
                   user_message, exc, responses, log>>

\* line 47: response = agent(user_message), the agent raising
AgentRaisesRetried(text) ==
    /\ pc = "call"
    /\ agent_calls' = agent_calls + 1
    /\ agent_call' = [instance |-> agent, arg |-> user_message]
    /\ agent_result' = [kind |-> "raised", message |-> <<>>]
    /\ exc' = Exc("Exception", text)
    /\ pc' = IF agent_calls = 0 THEN "call" ELSE "except"
    /\ path' = Append(path, "call")
    /\ UNCHANGED <<toolVars, loaded, agent, constructions, invocations, event, body,
                   user_message, responses, log>>
AgentRaises(text) ==
    /\ pc = "call"
    /\ agent_calls' = agent_calls + 1
    /\ agent_call' = [instance |-> agent, arg |-> user_message]
    /\ agent_result' = [kind |-> "raised", message |-> <<>>]
    /\ exc' = Exc("Exception", text)
    /\ pc' = "except"
    /\ path' = Append(path, "call")
    /\ UNCHANGED <<toolVars, loaded, agent, constructions, invocations, event, body,
                   user_message, responses, log>>

\* lines 49-52: return the 200 response
Respond ==
    /\ pc = "respond"
    /\ responses' = Append(responses, response_200(user_message.v, agent_result.message))
    /\ pc' = "done"
    /\ path' = Append(path, "respond")
    /\ UNCHANGED <<toolVars, loaded, agent, constructions, invocations, event, body,
                   user_message, exc, agent_calls, agent_call, agent_result, log>>

\* lines 54-61: except Exception as e: log it and return the 500 response.
\* An exception the clause does not catch leaves lambda_handler.
Except ==
    /\ pc = "except"
    /\ IF Catches(exc)
       THEN /\ log' = Append(log, log_line(exc))
            /\ responses' = Append(responses, response_500(exc))
            /\ pc' = "done"
       ELSE /\ log' = log
            /\ responses' = responses
            /\ pc' = "propagated"
    /\ path' = Append(path, "except")
    /\ UNCHANGED <<toolVars, loaded, agent, constructions, invocations, event, body,
                   user_message, exc, agent_calls, agent_call, agent_result>>

Next ==
    \/ LoadModule
    \/ \E e \in Events : Invoke(e)
    \/ ParseBody
    \/ ExtractMessage
    \/ CheckMessage
    \/ \E reply \in Replies : AgentReturns(reply)
    \/ \E text \in ExcTexts : AgentRaises(text)
    \/ Respond
    \/ Except

Spec == Init /\ [][Next]_vars

SpecTools == Init /\ [][NextTools]_vars

-----------------------------------------------------------------------------
(* Claims about the lookup tools, checked under SpecTools *)

\* spells "not available"
Unavailable == <<"n", "o", "t", " ", "a", "v", "a", "i", "l", "a", "b", "l", "e">>

\* C4: called with a key of its table, each tool returns exactly the string
\* stored for that key: get_weather for "Beijing", "Shanghai", "New York" and
\* weather_info for "new york", "london", "tokyo".
C4_KnownKeyReturnsStored ==
    \* spells "Beijing", "Shanghai", "New York"
    /\ DOMAIN demo_data = {<<"B", "e", "i", "j", "i", "n", "g">>, <<"S", "h", "a", "n", "g", "h", "a", "i">>, <<"N", "e", "w", " ", "Y", "o", "r", "k">>}
    \* spells "new york", "london", "tokyo"
    /\ DOMAIN weather_data = {<<"n", "e", "w", " ", "y", "o", "r", "k">>, <<"l", "o", "n", "d", "o", "n">>, <<"t", "o", "k", "y", "o">>}
    /\ (last_call.tool = "get_weather" /\ last_call.arg \in DOMAIN demo_data)
         => (~last_call.raised /\ last_call.value = demo_data[last_call.arg])
    /\ (last_call.tool = "weather_info" /\ last_call.arg \in DOMAIN weather_data)
         => (~last_call.raised /\ last_call.value = weather_data[last_call.arg])

C4_Witness ==
    /\ last_call.tool = "weather_info"
    /\ last_call.arg = <<"t", "o", "k", "y", "o">>
    \* spells "79\u00b0F, Sunny"
    /\ last_call.value = <<"7", "9", DEG, "F", ",", " ", "S", "u", "n", "n", "y">>
    /\ first_call.tool = "get_weather"
    \* spells "New York"
    /\ first_call.arg = <<"N", "e", "w", " ", "Y", "o", "r", "k">>
    \* spells "Rainy, 18\u00b0C"
    /\ first_call.value = <<"R", "a", "i", "n", "y", ",", " ", "1", "8", DEG, "C">>

\* the location, in some spelling of its letters' case, is a key of weather_data
IsVariantOfKey(location) ==
    \E key \in DOMAIN weather_data : location \in CaseVariants(key)

\* C5 as stated: called with an input that is not in its table (for
\* weather_info: in no spelling of its case), each tool returns, without
\* raising, a string that contains the input and an "unavailable" indication.
C5_MissEchoesInput ==
    /\ (last_call.tool = "get_weather" /\ last_call.arg \notin DOMAIN demo_data)
         => /\ ~last_call.raised
            /\ Contains(last_call.value, last_call.arg)
            /\ Contains(last_call.value, Unavailable)
    /\ (last_call.tool = "weather_info" /\ ~IsVariantOfKey(last_call.arg))
         => /\ ~last_call.raised
            /\ Contains(last_call.value, last_call.arg)
            /\ Contains(last_call.value, Unavailable)

\* C5 amended: neither tool raises.  get_weather, called with an input that is
\* not a key, returns "Weather data not available for " followed by the
\* input.  weather_info, called with an input that is no case variant of a
\* key, returns the fixed string "Weather information not available", which
\* does not depend on the input.
C5_MissReturnsFallback ==
    /\ ~last_call.raised
    /\ (last_call.tool = "get_weather" /\ last_call.arg \notin DOMAIN demo_data)
         \* spells "Weather data not available for "
         => /\ last_call.value = <<"W", "e", "a", "t", "h", "e", "r", " ", "d", "a", "t", "a",
                                   " ", "n", "o", "t", " ", "a", "v", "a", "i", "l", "a", "b",
                                   "l", "e", " ", "f", "o", "r", " ">> \o last_call.arg
            /\ Contains(last_call.value, last_call.arg)
            /\ Contains(last_call.value, Unavailable)
    /\ (last_call.tool = "weather_info" /\ ~IsVariantOfKey(last_call.arg))
         \* spells "Weather information not available"
         => /\ last_call.value = <<"W", "e", "a", "t", "h", "e", "r", " ", "i", "n", "f", "o",
                                   "r", "m", "a", "t", "i", "o", "n", " ", "n", "o", "t", " ",
                                   "a", "v", "a", "i", "l", "a", "b", "l", "e">>
            /\ Contains(last_call.value, Unavailable)

C5_Witness ==
    /\ last_call.tool = "weather_info"
    /\ last_call.arg = <<"P", "a", "r", "i", "s">>
    /\ ~Contains(last_call.value, last_call.arg)
    /\ first_call.tool = "get_weather"
    /\ first_call.arg = <<"P", "a", "r", "i", "s">>
    /\ Contains(first_call.value, first_call.arg)

\* C6: the tables hold exactly their initial entries after any sequence of
\* calls, and a call returns what an earlier call with the same argument
\* returned, whatever was called in between.
C6_TableReadOnly ==
    /\ demo_data = demo_data_literal
    /\ weather_data = weather_data_literal
    /\ (first_call.tool = last_call.tool /\ first_call.arg = last_call.arg)
         => /\ first_call.raised = last_call.raised
            /\ first_call.value = last_call.value

C6_Witness ==
    /\ first_call.tool = "get_weather"
    /\ last_call.tool = "get_weather"
    /\ first_call.arg = <<"P", "a", "r", "i", "s">>
    /\ last_call.arg = <<"P", "a", "r", "i", "s">>
    /\ first_call.n + 1 < last_call.n

\* C7: get_weather returns a stored value only for an argument equal to a key
\* character for character, and the fallback otherwise; weather_info returns
\* the value stored for a key for every upper/lower-case spelling of it.
C7_CaseMatching ==
    /\ last_call.tool = "get_weather" =>
         \A key \in DOMAIN demo_data :
            /\ last_call.arg = key => last_call.value = demo_data[key]
            /\ last_call.arg # key => last_call.value # demo_data[key]
    /\ last_call.tool = "get_weather" =>
         \A key \in DOMAIN demo_data :
            (last_call.arg \in CaseVariants(key) /\ last_call.arg # key)
               \* spells "Weather data not available for "
               => last_call.value = <<"W", "e", "a", "t", "h", "e", "r", " ", "d", "a", "t",
                                      "a", " ", "n", "o", "t", " ", "a", "v", "a", "i", "l",
                                      "a", "b", "l", "e", " ", "f", "o", "r", " ">> \o last_call.arg
    /\ last_call.tool = "weather_info" =>
         \A key \in DOMAIN weather_data :
            last_call.arg \in CaseVariants(key) => last_call.value = weather_data[key]

C7_Witness ==
    /\ first_call.tool = "get_weather"
    /\ first_call.arg = <<"b", "e", "i", "j", "i", "n", "g">>
    \* spells "Weather data not available for beijing"
    /\ first_call.value = <<"W", "e", "a", "t", "h", "e", "r", " ", "d", "a", "t", "a", " ",
                            "n", "o", "t", " ", "a", "v", "a", "i", "l", "a", "b", "l", "e",
                            " ", "f", "o", "r", " ", "b", "e", "i", "j", "i", "n", "g">>
    /\ last_call.tool = "weather_info"
    /\ last_call.arg = <<"L", "O", "N", "D", "O", "N">>
    \* spells "64\u00b0F, Rainy"
    /\ last_call.value = <<"6", "4", DEG, "F", ",", " ", "R", "a", "i", "n", "y">>

-----------------------------------------------------------------------------
(* Claims about lambda_handler, checked under Spec *)

\* the parsed body b is an object whose `message` is absent or empty
\* ("", [], {} or null)
MessageAbsentOrEmpty(b) ==
    /\ b.t = "dict"
    /\ \/ <<"m", "e", "s", "s", "a", "g", "e">> \notin DOMAIN b.v
       \/ b.v[<<"m", "e", "s", "s", "a", "g", "e">>].t = "none"
       \/ /\ b.v[<<"m", "e", "s", "s", "a", "g", "e">>].t \in {"str", "list", "dict"}
          /\ DOMAIN b.v[<<"m", "e", "s", "s", "a", "g", "e">>].v = {}

\* x is the str with these characters
IsStr(x, chars) == x.t = "str" /\ x.v = chars

\* the event's body is the str text
HasBodyText(e, text) ==
    /\ <<"b", "o", "d", "y">> \in DOMAIN e.v
    /\ e.v[<<"b", "o", "d", "y">>].t = "str"
    /\ e.v[<<"b", "o", "d", "y">>].v = text

\* the JSON text parses to the object {"message": reply}
IsMessageObject(text, reply) ==
    /\ ~json_loads(Str(text)).raised
    /\ json_loads(Str(text)).value.t = "dict"
    /\ DOMAIN json_loads(Str(text)).value.v = {<<"m", "e", "s", "s", "a", "g", "e">>}
    /\ IsStr(json_loads(Str(text)).value.v[<<"m", "e", "s", "s", "a", "g", "e">>], reply)

LastLogLine == IF log = <<>> THEN <<>> ELSE log[Len(log)]

\* C1: an invocation whose parsed JSON body has `message` absent or empty
\* returns status 400 with body {"error": "No message provided"} and never
\* calls the agent.
C1_MissingMessageIs400 ==
    MessageAbsentOrEmpty(body) =>
        /\ agent_calls = 0
        /\ pc \in {"extract", "check", "done"}
        /\ pc = "done" =>
              responses = <<[statusCode |-> 400,
                             \* spells "{\"error\": \"No message provided\"}"
                             body |-> <<"{", "\"", "e", "r", "r", "o", "r", "\"", ":", " ",
                                        "\"", "N", "o", " ", "m", "e", "s", "s", "a", "g", "e",
                                        " ", "p", "r", "o", "v", "i", "d", "e", "d", "\"", "}">>]>>

C1_Witness ==
    /\ pc = "done"
    \* spells "{\"message\": \"\"}"
    /\ HasBodyText(event, <<"{", "\"", "m", "e", "s", "s", "a", "g", "e", "\"", ":", " ", "\"",
                            "\"", "}">>)
    /\ MessageAbsentOrEmpty(body)
    /\ IsStr(user_message, <<>>)
    /\ responses[1].statusCode = 400

\* C2: an invocation in which the agent call raises returns status 500 with
\* body exactly {"error": "Internal server error"}; the text of the exception
\* is printed to the log and is no part of the returned body.
C2_AgentFailureIs500 ==
    agent_result.kind = "raised" =>
        /\ pc \in {"except", "done"}
        /\ exc.text \in ExcTexts
        /\ pc = "except" => responses = <<>>
        /\ pc = "done" =>
              /\ responses = <<[statusCode |-> 500,
                                \* spells "{\"error\": \"Internal server error\"}"
                                body |-> <<"{", "\"", "e", "r", "r", "o", "r", "\"", ":", " ",
                                           "\"", "I", "n", "t", "e", "r", "n", "a", "l", " ",
                                           "s", "e", "r", "v", "e", "r", " ", "e", "r", "r",
                                           "o", "r", "\"", "}">>]>>
              \* spells "Error: "
              /\ LastLogLine = <<"E", "r", "r", "o", "r", ":", " ">> \o exc.text
              /\ ~Contains(responses[1].body, exc.text)

C2_Witness ==
    /\ pc = "done"
    /\ agent_result.kind = "raised"
    \* spells "AccessDenied for key AKIA123"
    /\ exc.text = <<"A", "c", "c", "e", "s", "s", "D", "e", "n", "i", "e", "d", " ", "f", "o",
                    "r", " ", "k", "e", "y", " ", "A", "K", "I", "A", "1", "2", "3">>
    \* spells "Error: AccessDenied for key AKIA123"
    /\ LastLogLine = <<"E", "r", "r", "o", "r", ":", " ", "A", "c", "c", "e", "s", "s", "D",
                       "e", "n", "i", "e", "d", " ", "f", "o", "r", " ", "k", "e", "y", " ",
                       "A", "K", "I", "A", "1", "2", "3">>
    /\ responses[1].statusCode = 500

\* C3: an invocation with a non-empty message that the agent answers returns
\* status 200 and a JSON body whose `message` field is exactly the agent's
\* reply to that message; message "hello" answered "hi there" gives
\* {"message": "hi there"}.
C3_ReplyIs200 ==
    (agent_result.kind = "returned" /\ pc = "done") =>
        /\ Len(responses) = 1
        /\ responses[1].statusCode = 200
        /\ IsMessageObject(responses[1].body, agent_result.message)
        /\ Truthy(user_message)
        /\ agent_call.arg.t = user_message.t
        /\ agent_call.arg.v = user_message.v
        \* spells "hello", "hi there"
        /\ (IsStr(user_message, <<"h", "e", "l", "l", "o">>) /\ agent_result.message = <<"h", "i", " ", "t", "h", "e", "r", "e">>)
              \* spells "{\"message\": \"hi there\"}"
              => responses[1].body = <<"{", "\"", "m", "e", "s", "s", "a", "g", "e", "\"", ":",
                                       " ", "\"", "h", "i", " ", "t", "h", "e", "r", "e", "\"",
                                       "}">>

C3_Witness ==
    /\ pc = "done"
    /\ IsStr(user_message, <<"h", "e", "l", "l", "o">>)
    /\ agent_result.kind = "returned"
    \* spells "hi there"
    /\ agent_result.message = <<"h", "i", " ", "t", "h", "e", "r", "e">>
    \* spells "{\"message\": \"hi there\"}"
    /\ responses[1].body = <<"{", "\"", "m", "e", "s", "s", "a", "g", "e", "\"", ":", " ",
                             "\"", "h", "i", " ", "t", "h", "e", "r", "e", "\"", "}">>

\* the number of agent calls among the steps taken
CallsIn(steps) == Cardinality({i \in DOMAIN steps : steps[i] = "call"})

\* C8: an invocation calls the agent at most once, only right after the
\* message has passed the non-empty check, and never again after a call that
\* failed; an invocation that has ended has returned exactly one response,
\* of status 200, 400 or 500.
C8_NoRetries ==
    /\ agent_calls <= 1
    /\ agent_calls = CallsIn(path)
    /\ \A i \in DOMAIN path :
          path[i] = "call" =>
             /\ i > 1
             /\ path[i - 1] = "check"
             /\ Truthy(user_message)
             /\ agent_result.kind = "raised" => \A j \in DOMAIN path : j > i => path[j] = "except"
    /\ pc # "propagated"
    /\ pc = "done" =>
          /\ Len(responses) = 1
          /\ responses[1].statusCode \in {200, 400, 500}
    /\ pc # "done" => responses = <<>>

C8_Witness ==
    /\ pc = "done"
    /\ path = <<"try", "parse", "extract", "check", "call", "except">>
    /\ agent_calls = 1
    /\ agent_result.kind = "raised"
    /\ responses[1].statusCode = 500

\* C9: the agent is constructed exactly once per process, before any
\* invocation; every invocation, whatever its outcome, finds that instance
\* under the name `agent` and calls no other.
C9_AgentConstructedOnce ==
    /\ invocations > 0 => loaded
    /\ loaded => (constructions = 1 /\ agent = 1)
    /\ ~loaded => (constructions = 0 /\ pc = "idle")
    /\ agent_calls > 0 => agent_call.instance = 1

C9_Witness ==
    /\ invocations = 2
    /\ log # <<>>
    /\ pc = "done"
    /\ responses[1].statusCode = 200
    /\ agent_call.instance = 1
    /\ constructions = 1

\* the event has a str body that is one of texts
BodyTextIn(e, texts) ==
    /\ <<"b", "o", "d", "y">> \in DOMAIN e.v
    /\ e.v[<<"b", "o", "d", "y">>].t = "str"
    /\ e.v[<<"b", "o", "d", "y">>].v \in texts

\* C10: no exception leaves lambda_handler.  An event without `body` is
\* handled as the empty object and gets 400; a body that is not JSON, or is
\* JSON but not an object, gets 500 "Internal server error"; the agent is
\* called in none of these cases.
C10_BadInputClassified ==
    /\ pc # "propagated"
    /\ (pc # "idle" /\ <<"b", "o", "d", "y">> \notin DOMAIN event.v) =>
          /\ agent_calls = 0
          /\ pc # "except"
          /\ pc # "parse" => (body.t = "dict" /\ DOMAIN body.v = {})
          /\ pc = "done" =>
                responses = <<[statusCode |-> 400,
                               \* spells "{\"error\": \"No message provided\"}"
                               body |-> <<"{", "\"", "e", "r", "r", "o", "r", "\"", ":", " ",
                                          "\"", "N", "o", " ", "m", "e", "s", "s", "a", "g",
                                          "e", " ", "p", "r", "o", "v", "i", "d", "e", "d",
                                          "\"", "}">>]>>
    /\ (pc # "idle" /\ BodyTextIn(event, InvalidBodies \cup NonObjectBodies)) =>
          /\ agent_calls = 0
          /\ pc \in {"parse", "extract", "except", "done"}
          /\ pc = "extract" => BodyTextIn(event, NonObjectBodies)
          /\ pc = "done" =>
                responses = <<[statusCode |-> 500,
                               \* spells "{\"error\": \"Internal server error\"}"
                               body |-> <<"{", "\"", "e", "r", "r", "o", "r", "\"", ":", " ",
                                          "\"", "I", "n", "t", "e", "r", "n", "a", "l", " ",
                                          "s", "e", "r", "v", "e", "r", " ", "e", "r", "r",
                                          "o", "r", "\"", "}">>]>>

C10_Witness ==
    /\ pc = "done"
    \* spells "[1]"
    /\ HasBodyText(event, <<"[", "1", "]">>)
    /\ exc.type = "AttributeError"
    \* spells "Error: 'list' object has no attribute 'get'"
    /\ LastLogLine = <<"E", "r", "r", "o", "r", ":", " ", "'", "l", "i", "s", "t", "'", " ",
                       "o", "b", "j", "e", "c", "t", " ", "h", "a", "s", " ", "n", "o", " ",
                       "a", "t", "t", "r", "i", "b", "u", "t", "e", " ", "'", "g", "e", "t", "'">>
    /\ responses[1].statusCode = 500

====
